---------------------------- MODULE Spec2Model ----------------------------
(***************************************************************************)
(* A model of the UV-grid synthesis and refinement engine:                 *)
(*   ml/uvnet/data/synth.py      MeshGenerator, UVGridRenderer,            *)
(*                               OperationSampler                          *)
(*   services/native-geo/app.py  rasterize_uv_grid, point_in_triangle,     *)
(*                               postprocess_mask, compute_confidence,     *)
(*                               the vertex selection of refine            *)
(*                                                                         *)
(* Numbers.  The code computes in floating point.  The model computes in   *)
(* exact rational arithmetic on integer lattices: a UV coordinate is an    *)
(* integer number of 1/UVDen, a pixel index u stands for the sample point  *)
(* u/R, and every comparison between the two is cross-multiplied.  What    *)
(* IEEE arithmetic adds to exact arithmetic and the code relies on (a      *)
(* division by zero that yields inf, inf*0 = nan, comparisons with nan) is *)
(* modelled explicitly.  Rounding is modelled where a result is compared   *)
(* for equality, in compute_confidence, and not in the geometry.           *)
(***************************************************************************)
EXTENDS Integers, Sequences, FiniteSets

(***************************************************************************)
(* Bounds of the model.                                                    *)
(***************************************************************************)
\* grid resolution (the code's default is 256): pixels are 0..R-1 in each axis
R == 3
\* vertex UV coordinates are multiples of 1/UVDen
UVDen == 2
\* pixel values (occupancy, soft masks) are multiples of 1/VDen
VDen == 2
\* every draw of np.random.uniform is low + (high - low) * j / RandSteps for a
\* j in 0 .. RandSteps
RandSteps == 2
\* a soft mask has at most MaxOn pixels above the threshold
MaxOn == 5
\* the parameter values are 7.0 and the ParamSpan float32 values that follow it
ParamSpan == 4
\* train runs with num_epochs in 0 .. MaxEpochs
MaxEpochs == 3
\* a finite validation loss is one of 0 .. MaxLoss
MaxLoss == 2

VARIABLES
    \* ---- UVGridRenderer.render -------------------------------------------
    mesh,        \* the MeshData argument: [uv, faces, den], uv[i] in units of 1/den
    occ,         \* the local array occ[v, u], a function on Pixels
    face_i,      \* number of faces of mesh.faces the for loop has completed
    rpc,         \* "loop" while rasterizing, "done" once render has returned
    div_zero,    \* whether 1 / 0 has been evaluated in _point_in_triangle
    uv_grid,     \* the returned channel stack (a sequence of grids), <<>> before
    \* ---- OperationSampler.sample_hole / sample_extrude ---------------------
    sampler,     \* the OperationSampler: [min_wall_thickness, min_feature_size]
    sret,        \* "pending" before the call, then "None" or "op"
    op_gt,       \* the OperationGT returned when sret = "op"
    rng,         \* np.random's global generator: the number of draws made from it
    \* ---- app.py: postprocess_mask, the vertex selection, compute_confidence
    mask_pred,        \* the model's soft mask, a function on Pixels
    params_pred,      \* the model's parameter vector
    mask_processed,   \* postprocess_mask's result
    mask_vertex_ids,  \* the list the vertex selection builds
    confidence,       \* compute_confidence's result, in units of 2^-26
    apc,              \* "idle", "call" before and "done" after the operation
    \* ---- DatasetSynthesizer ----------------------------------------------
    params_gt,   \* _extract_params_vector's result, in units of 1 / (900 * One)
    gpc,         \* "idle", then the position in the DatasetSynthesizer method
    g_op_type,   \* generate_sample's op_type argument
    gret,        \* generate_sample's result: Pending, then NoSample or a Sample
    \* ---- app.py: the POST /refine handler ---------------------------------
    hpc,           \* "idle", then the handler's position: "try", "load", "run",
                   \* "except", "done"
    model_exists,  \* whether ml/uvnet/models/final_model.pt exists
    model_loaded,  \* whether the global _model is not None
    proposal,      \* request.proposal: [uv_box, op_type]; request.mesh is mesh
    exc,           \* the exception in flight inside the try block, or NoExc
    response,      \* what reaches the client: [status, ...], NoResponse before
    calls,         \* the functions the handler has called, in order
    \* ---- train.py: train ---------------------------------------------------
    tpc,           \* "idle", "loop" inside the for loop, "saved" at the end
    num_epochs,    \* the num_epochs argument
    epoch,         \* number of iterations of the for loop completed
    val_losses,    \* validate's result of every completed epoch, in order
    best_val_loss, \* the local best_val_loss
    checkpoints,   \* the epochs e (from 1) with a checkpoint_epoch_e.pt saved
    final_saves    \* number of times final_model.pt has been saved

rvars == <<mesh, occ, face_i, rpc, div_zero, uv_grid>>
svars == <<sampler, sret, op_gt, rng>>
avars == <<mask_pred, params_pred, mask_processed, mask_vertex_ids, confidence, apc>>
hvars == <<hpc, model_exists, model_loaded, proposal, exc, response, calls>>
tvars == <<tpc, num_epochs, epoch, val_losses, best_val_loss, checkpoints, final_saves>>
xvars == <<params_gt, gpc, g_op_type, gret, hvars, tvars>>
vars == <<mesh, occ, face_i, rpc, div_zero, uv_grid, sampler, sret, op_gt, rng,
          mask_pred, params_pred, mask_processed, mask_vertex_ids, confidence, apc,
          params_gt, gpc, g_op_type, gret,
          hpc, model_exists, model_loaded, proposal, exc, response, calls,
          tpc, num_epochs, epoch, val_losses, best_val_loss, checkpoints, final_saves>>

(***************************************************************************)
(* Helpers.                                                                *)
(***************************************************************************)
Min2(a, b) == IF a <= b THEN a ELSE b
Max2(a, b) == IF a >= b THEN a ELSE b
Min3(a, b, c) == Min2(a, Min2(b, c))
Max3(a, b, c) == Max2(a, Max2(b, c))

\* int(np.floor(n / d)) and int(np.ceil(n / d)) for d > 0
FloorDiv(n, d) == n \div d
CeilDiv(n, d) == -((-n) \div d)

\* pixel indices, as <<v, u>> = <<row, column>> like occ[v, u]
Pix == 0 .. (R - 1)
Pixels == Pix \X Pix

\* the pixel value 1.0
V1 == VDen
ZeroGrid == [p \in Pixels |-> 0]
\* x > 0.5 for a pixel value x
Ge05(x) == 2 * x >= VDen
Gt05(x) == 2 * x > VDen

(***************************************************************************)
(* UVGridRenderer._point_in_triangle (and app.py's point_in_triangle,      *)
(* which is the same text).  p is the sample point <<u/W, v/H>> given by   *)
(* its pixel indices <<pu, pv>>; v0, v1, v2 are UVs in units of 1/den.     *)
(* Everything is brought to the common denominator den * R.                *)
(***************************************************************************)
Dot(a, b) == a[1] * b[1] + a[2] * b[2]
Sub(a, b) == <<a[1] - b[1], a[2] - b[2]>>
\* a UV of the mesh and a pixel's sample point on the common lattice
OfUV(q) == <<q[1] * R, q[2] * R>>
OfPixel(pu, pv, den) == <<pu * den, pv * den>>

\* dot00 * dot11 - dot01 * dot01 : the number the code inverts
Denom(v0, v1, v2) ==
    LET v0v1 == Sub(OfUV(v1), OfUV(v0))
        v0v2 == Sub(OfUV(v2), OfUV(v0))
    IN  Dot(v0v2, v0v2) * Dot(v0v1, v0v1) - Dot(v0v2, v0v1) * Dot(v0v2, v0v1)

\* x * inv_denom when inv_denom = 1 / 0 = +inf (numpy scalars: a warning, no
\* exception): nan for x = 0, otherwise an infinity of x's sign
MulInf(x) == IF x = 0 THEN "nan" ELSE IF x > 0 THEN "+inf" ELSE "-inf"
\* the sum of two such values: nan if either is nan or the signs differ
AddNonFinite(x, y) == IF x = y THEN x ELSE "nan"
\* (u >= 0) and (v >= 0) and (u + v <= 1) on such values: every comparison
\* with nan is False, only +inf is >= 0 and only -inf is <= 1
InsideNonFinite(u, v) ==
    /\ u = "+inf"
    /\ v = "+inf"
    /\ AddNonFinite(u, v) = "-inf"

PointInTriangle(pu, pv, v0, v1, v2, den) ==
    LET v0v1 == Sub(OfUV(v1), OfUV(v0))
        v0v2 == Sub(OfUV(v2), OfUV(v0))
        v0p  == Sub(OfPixel(pu, pv, den), OfUV(v0))
        dot00 == Dot(v0v2, v0v2)
        dot01 == Dot(v0v2, v0v1)
        dot02 == Dot(v0v2, v0p)
        dot11 == Dot(v0v1, v0v1)
        dot12 == Dot(v0v1, v0p)
        \* denom >= 0 (Cauchy-Schwarz), so u = un / denom has the sign of un
        denom == dot00 * dot11 - dot01 * dot01
        un == dot11 * dot02 - dot01 * dot12
        vn == dot00 * dot12 - dot01 * dot02
    IN  IF denom = 0
        THEN InsideNonFinite(MulInf(un), MulInf(vn))
        ELSE (un >= 0) /\ (vn >= 0) /\ (un + vn <= denom)

(***************************************************************************)
(* UVGridRenderer.render: the pixel bounding box of one face and the       *)
(* pixels its two nested loops visit.                                      *)
(***************************************************************************)
\* u_min, u_max (axis 1) and v_min, v_max (axis 2); H = W = R
BoxLo(v0, v1, v2, den, axis) ==
    Max2(0, FloorDiv(Min3(v0[axis], v1[axis], v2[axis]) * R, den))
\* the upper bound rounded down instead of up
BoxHiFloor(v0, v1, v2, den, axis) ==
    Min2(R, FloorDiv(Max3(v0[axis], v1[axis], v2[axis]) * R, den))
BoxHi(v0, v1, v2, den, axis) ==
    Min2(R, CeilDiv(Max3(v0[axis], v1[axis], v2[axis]) * R, den))

\* for v in range(v_min, v_max): for u in range(u_min, u_max)
Visited(v0, v1, v2, den) ==
    { p \in Pixels :
        /\ BoxLo(v0, v1, v2, den, 2) <= p[1] /\ p[1] < BoxHi(v0, v1, v2, den, 2)
        /\ BoxLo(v0, v1, v2, den, 1) <= p[2] /\ p[2] < BoxHi(v0, v1, v2, den, 1) }

\* the pixels one face sets to 1.0
Covered(v0, v1, v2, den) ==
    { p \in Visited(v0, v1, v2, den) :
        PointInTriangle(p[2], p[1], v0, v1, v2, den) }

\* mesh.uv[i] with Python's indexing: 0 .. n-1 from the front, -n .. -1 from
\* the back, anything else an IndexError
InRange(i, n) == (-n <= i) /\ (i < n)
At(seq, i) == IF i >= 0 THEN seq[i + 1] ELSE seq[Len(seq) + i + 1]
FaceOk(m, f) == \A k \in 1..3 : InRange(m.faces[f][k], Len(m.uv))
FaceUV(m, f, k) == At(m.uv, m.faces[f][k])

Degenerate(m, f) == Denom(FaceUV(m, f, 1), FaceUV(m, f, 2), FaceUV(m, f, 3)) = 0
FaceVisited(m, f) ==
    Visited(FaceUV(m, f, 1), FaceUV(m, f, 2), FaceUV(m, f, 3), m.den)
FaceCovered(m, f) ==
    Covered(FaceUV(m, f, 1), FaceUV(m, f, 2), FaceUV(m, f, 3), m.den)

(***************************************************************************)
(* The meshes render is given.                                             *)
(***************************************************************************)
Coord == 0 .. UVDen
Points == Coord \X Coord
Corners == {0, UVDen} \X {0, UVDen}

\* one triangle; a face that repeats a vertex, then the triangle; a second
\* face with an index past the end; a face that indexes from the back
Faces3 == { << <<0, 1, 2>> >>,
            << <<0, 0, 1>>, <<0, 1, 2>> >>,
            << <<0, 1, 2>>, <<0, 1, 3>> >>,
            << <<0, 1, -1>> >> }
\* the two faces of a quad (MeshGenerator.plate's), in either order
Faces4 == { << <<0, 1, 2>>, <<0, 2, 3>> >>,
            << <<0, 2, 3>>, <<0, 1, 2>> >> }

\* the meshes render is given: three vertices anywhere on the lattice, or four
\* with the last on a corner of the unit square
IsRenderMesh(m) ==
    \/ \E a \in Points, b \in Points, c \in Points, fs \in Faces3 :
          m = [uv |-> <<a, b, c>>, faces |-> fs, den |-> UVDen]
    \/ \E a \in Points, b \in Points, c \in Points, d \in Corners, fs \in Faces4 :
          m = [uv |-> <<a, b, c, d>>, faces |-> fs, den |-> UVDen]

\* the sampler's variables while the model is not about the sampler
NoOp == [op_type |-> "none"]
SamplerIdle ==
    /\ sampler = [min_wall_thickness |-> 2, min_feature_size |-> 1]
    /\ sret = "pending"
    /\ op_gt = NoOp
    /\ rng = 0

\* the variables of app.py's operations while the model is not about them
AppIdle ==
    /\ mask_pred = ZeroGrid
    /\ params_pred = <<0, 0, 0, 0, 0>>
    /\ mask_processed = ZeroGrid
    /\ mask_vertex_ids = <<>>
    /\ confidence = 0
    /\ apc = "idle"

\* generate_sample's result before it returns, and its return value None
Pending == [kind |-> "pending"]
NoSample == [kind |-> "None"]

\* no exception in flight, no response sent yet
NoExc == [type |-> "none"]
NoResponse == [status |-> 0]

\* float('inf'), the initial best_val_loss
Inf == [k |-> "inf", v |-> 0]

\* the variables of the request handler while the model is not about it
HandlerIdle ==
    /\ hpc = "idle"
    /\ model_exists = TRUE
    /\ model_loaded = FALSE
    /\ proposal = [uv_box |-> <<>>, op_type |-> "add_hole"]
    /\ exc = NoExc
    /\ response = NoResponse
    /\ calls = <<>>

\* the variables of the training loop while the model is not about it
TrainIdle ==
    /\ tpc = "idle"
    /\ num_epochs = 0
    /\ epoch = 0
    /\ val_losses = <<>>
    /\ best_val_loss = Inf
    /\ checkpoints = {}
    /\ final_saves = 0

\* the variables of the DatasetSynthesizer, the request handler and the training
\* loop while the model is not about them
OtherIdle ==
    /\ params_gt = <<>>
    /\ gpc = "idle"
    /\ g_op_type = "add_hole"
    /\ gret = Pending
    /\ HandlerIdle
    /\ TrainIdle

(***************************************************************************)
(* UVGridRenderer.render(mesh), called without tags as generate_sample     *)
(* calls it.  One step per iteration of `for face in mesh.faces`.          *)
(***************************************************************************)
RenderInit ==
    /\ IsRenderMesh(mesh)
    /\ occ = ZeroGrid
    /\ face_i = 0
    /\ rpc = "loop"
    /\ div_zero = FALSE
    /\ uv_grid = <<>>
    /\ SamplerIdle
    /\ AppIdle
    /\ OtherIdle

\* one face, with the grid assigned instead of or-ed
RenderFaceOverwrite ==
    /\ rpc = "loop"
    /\ face_i < Len(mesh.faces)
    /\ FaceOk(mesh, face_i + 1)
    /\ occ' = [p \in Pixels |->
                 IF p \in FaceCovered(mesh, face_i + 1) THEN V1 ELSE 0]
    /\ div_zero' = (div_zero \/ (/\ Degenerate(mesh, face_i + 1)
                                 /\ FaceVisited(mesh, face_i + 1) # {}))
    /\ face_i' = face_i + 1
    /\ UNCHANGED <<mesh, rpc, uv_grid, svars, avars, xvars>>

\* one face: its bounding box, and every pixel of the box tested and set
RenderFace ==
    /\ rpc = "loop"
    /\ face_i < Len(mesh.faces)
    /\ FaceOk(mesh, face_i + 1)
    /\ occ' = [p \in Pixels |->
                 IF p \in FaceCovered(mesh, face_i + 1) THEN V1 ELSE occ[p]]
    /\ div_zero' = (div_zero \/ (/\ Degenerate(mesh, face_i + 1)
                                 /\ FaceVisited(mesh, face_i + 1) # {}))
    /\ face_i' = face_i + 1
    /\ UNCHANGED <<mesh, rpc, uv_grid, svars, avars, xvars>>

\* mesh.uv[face[k]] raises IndexError: render ends without a grid
RenderIndexError ==
    /\ rpc = "loop"
    /\ face_i < Len(mesh.faces)
    /\ ~FaceOk(mesh, face_i + 1)
    /\ rpc' = "raised"
    /\ UNCHANGED <<mesh, occ, face_i, div_zero, uv_grid, svars, avars, xvars>>

\* channels.append(occ); return np.stack(channels, axis=0)
RenderReturn ==
    /\ rpc = "loop"
    /\ face_i = Len(mesh.faces)
    /\ uv_grid' = <<occ>>
    /\ rpc' = "done"
    /\ UNCHANGED <<mesh, occ, face_i, div_zero, svars, avars, xvars>>

RenderNext == RenderFace \/ RenderIndexError \/ RenderReturn

SpecRender == RenderInit /\ [][RenderNext]_vars

(***************************************************************************)
(* Geometry the claims are stated in, independent of the barycentric test. *)
(***************************************************************************)
\* twice the signed area of (a, b, c), points on a common lattice
Cross(a, b, c) == (b[1] - a[1]) * (c[2] - a[2]) - (b[2] - a[2]) * (c[1] - a[1])

\* the sample point of pixel p = <<v, u>> lies strictly inside triangle (a, b, c)
StrictlyInside(p, a, b, c, den) ==
    LET q == OfPixel(p[2], p[1], den)
        e1 == Cross(OfUV(a), OfUV(b), q)
        e2 == Cross(OfUV(b), OfUV(c), q)
        e3 == Cross(OfUV(c), OfUV(a), q)
    IN  \/ (e1 > 0 /\ e2 > 0 /\ e3 > 0)
        \/ (e1 < 0 /\ e2 < 0 /\ e3 < 0)

\* pixel p lies outside the pixel bounding box floor(min * R) .. ceil(max * R) - 1
\* of (a, b, c): u + 1 <= min * R or u >= max * R, in either axis
OutsideBox(p, a, b, c, den) ==
    \/ (p[2] + 1) * den <= Min3(a[1], b[1], c[1]) * R
    \/ p[2] * den >= Max3(a[1], b[1], c[1]) * R
    \/ (p[1] + 1) * den <= Min3(a[2], b[2], c[2]) * R
    \/ p[1] * den >= Max3(a[2], b[2], c[2]) * R

\* a mesh of one triangle with positive area (its UVs are in [0,1]^2: Points)
OneTriangle(m) ==
    /\ Len(m.faces) = 1
    /\ FaceOk(m, 1)
    /\ Cross(FaceUV(m, 1, 1), FaceUV(m, 1, 2), FaceUV(m, 1, 3)) # 0

(***************************************************************************)
(* C1: for a mesh of one triangle with positive area and UVs in [0,1]^2,   *)
(* after render every pixel whose sample point (u/R, v/R) lies strictly    *)
(* inside the triangle has occupancy 1 and every pixel outside the         *)
(* triangle's pixel bounding box has occupancy 0.                          *)
(***************************************************************************)
C1_InsideSetOutsideClear ==
    (rpc = "done" /\ OneTriangle(mesh)) =>
        \A p \in Pixels :
            LET a == FaceUV(mesh, 1, 1)
                b == FaceUV(mesh, 1, 2)
                c == FaceUV(mesh, 1, 3)
            IN  /\ StrictlyInside(p, a, b, c, mesh.den) => uv_grid[1][p] = V1
                /\ OutsideBox(p, a, b, c, mesh.den) => uv_grid[1][p] = 0

\* a rendered triangle with a pixel strictly inside it and a pixel outside its box
C1_Witness ==
    /\ rpc = "done"
    /\ OneTriangle(mesh)
    /\ \E p \in Pixels :
         StrictlyInside(p, FaceUV(mesh, 1, 1), FaceUV(mesh, 1, 2),
                        FaceUV(mesh, 1, 3), mesh.den)
    /\ \E p \in Pixels :
         OutsideBox(p, FaceUV(mesh, 1, 1), FaceUV(mesh, 1, 2),
                    FaceUV(mesh, 1, 3), mesh.den)

(***************************************************************************)
(* C2: a degenerate triangle (zero area, barycentric denominator 0) is     *)
(* detected and skipped: no division by zero is performed, it sets no      *)
(* pixel, the grid holds only 0 and 1, and the other triangles of the mesh *)
(* are still rasterized.                                                   *)
(***************************************************************************)
C2_DegenerateSkipped ==
    /\ ~div_zero
    /\ \A p \in Pixels : occ[p] \in {0, V1}
    /\ rpc = "done" =>
         \A p \in Pixels :
            uv_grid[1][p] = V1 <=>
               \E f \in 1..Len(mesh.faces) :
                  ~Degenerate(mesh, f) /\ p \in FaceCovered(mesh, f)

(***************************************************************************)
(* MeshGenerator.plate.  uv = vertices[:, :2] / max(length, width): the    *)
(* fractions x / max(length, width), written in lowest terms over one      *)
(* denominator.  thickness is not used.                                    *)
(***************************************************************************)
RECURSIVE GCD(_, _)
GCD(a, b) == IF b = 0 THEN a ELSE GCD(b, a % b)

Plate(length, width, thickness) ==
    LET g == GCD(length, width)
        l == length \div g
        w == width \div g
    IN  [uv    |-> << <<0, 0>>, <<l, 0>>, <<l, w>>, <<0, w>> >>,
         faces |-> << <<0, 1, 2>>, <<0, 2, 3>> >>,
         den   |-> Max2(l, w)]

(***************************************************************************)
(* OperationSampler.  UV quantities of the sampler (centers, sizes, box    *)
(* bounds) are integers in units of 1/One.  Millimetre arguments are in    *)
(* half millimetres (the defaults 1.0 and 0.5 are 2 and 1); millimetre     *)
(* results are in units of 1/One mm.                                       *)
(***************************************************************************)
\* the UV value 1.0: a multiple of R (pixel centers x / R), of R - 1 (the
\* points of np.linspace(0, 1, R)), of 200 (x / 100 for half millimetres) and
\* of 40 (0.05 and its half)
One == 800 * R * (R - 1)

\* x / 100.0 for x = h half millimetres
MmToUV(h) == (h * One) \div 200

\* np.random.uniform(low, high) = low + (high - low) * rand, rand = j / RandSteps,
\* kept on the even lattice points so that its half is exact (low, high even)
Rand == 0 .. RandSteps
Uniform(low, high, j) == low + 2 * ((((high - low) \div 2) * j) \div RandSteps)

\* the configurations: the defaults (1.0 mm, 0.5 mm); a wall of 45 mm, which
\* makes 1 - 2 * 45 / 100 = 0.1 the diameter's upper bound; a feature size of
\* 10 mm.  Each has min_feature_size / 100 <= max_diameter, which the caller
\* of OperationSampler is to ensure.
Configs == { [min_wall_thickness |-> 2,  min_feature_size |-> 1],
             [min_wall_thickness |-> 90, min_feature_size |-> 1],
             [min_wall_thickness |-> 2,  min_feature_size |-> 20] }

\* np.where(occ > 0.5): the pixels <<y, x>> a center is drawn from
ValidPixels(grid) == { p \in Pixels : Gt05(grid[p]) }

\* valid_x[idx] / resolution
PixelCenter(x) == x * (One \div R)

\* max(0, x) and min(1, x)
ClampLoNone(x) == x
ClampLo(x) == Max2(0, x)
ClampHi(x) == Min2(One, x)

\* min(0.2, 1.0 - 2 * self.min_wall_thickness / 100.0)
MaxDiameterNoWall(cfg) == One \div 5
MaxDiameter(cfg) == Min2(One \div 5, One - 2 * MmToUV(cfg.min_wall_thickness))

\* u_min <= uv[0] <= u_max and v_min <= uv[1] <= v_max, uv in units of 1/den
InBoxStrict(q, den, box) ==
    /\ box[1] * den < q[1] * One /\ q[1] * One < box[2] * den
    /\ box[3] * den < q[2] * One /\ q[2] * One < box[4] * den
InBox(q, den, box) ==
    /\ box[1] * den <= q[1] * One /\ q[1] * One <= box[2] * den
    /\ box[3] * den <= q[2] * One /\ q[2] * One <= box[4] * den

\* the loop over enumerate(mesh.uv): the indices, in order, of the vertices in the box
VertexIds(m, box) ==
    LET Hit(i) == InBox(m.uv[i + 1], m.den, box)
    IN  SelectSeq([k \in 1..Len(m.uv) |-> k - 1], Hit)

\* np.linspace(0, 1, resolution)[k]
Linspace(k) == k * (One \div (R - 1))

\* mask[dist <= radius_uv] = 1.0, with x_coords[i, j] = linspace[j] and
\* y_coords[i, j] = linspace[i]; dist >= 0, so dist <= r is r >= 0 and dist^2 <= r^2
DiscMask(center_u, center_v, radius_uv) ==
    [p \in Pixels |->
        IF /\ radius_uv >= 0
           /\ (Linspace(p[2]) - center_u) * (Linspace(p[2]) - center_u)
              + (Linspace(p[1]) - center_v) * (Linspace(p[1]) - center_v)
                <= radius_uv * radius_uv
        THEN V1 ELSE 0]

\* mask[(x >= u_min) & (x <= u_max) & (y >= v_min) & (y <= v_max)] = 1.0
BoxMask(box) ==
    [p \in Pixels |->
        IF /\ Linspace(p[2]) >= box[1] /\ Linspace(p[2]) <= box[2]
           /\ Linspace(p[1]) >= box[3] /\ Linspace(p[1]) <= box[4]
        THEN V1 ELSE 0]

\* sample_hole past its early return: center pixel p = <<y, x>>, diameter draw j
HoleOp(m, cfg, p, j) ==
    LET center_u == PixelCenter(p[2])
        center_v == PixelCenter(p[1])
        diameter == Uniform(MmToUV(cfg.min_feature_size), MaxDiameter(cfg), j)
        radius_uv == diameter \div 2
        box == << ClampLo(center_u - radius_uv), ClampHi(center_u + radius_uv),
                  ClampLo(center_v - radius_uv), ClampHi(center_v + radius_uv) >>
    IN  [op_type    |-> "add_hole",
         uv_box     |-> box,
         params     |-> [shape |-> "circular",
                         diameterMm |-> diameter * 100,
                         throughAll |-> TRUE],
         mask       |-> DiscMask(center_u, center_v, radius_uv),
         vertex_ids |-> VertexIds(m, box)]

\* sample_extrude past its early return: center pixel p, size draws ju and jv,
\* direction dir, height draw jh, taper draw jt
ExtrudeOp(m, p, ju, jv, dir, jh, jt) ==
    LET center_u == PixelCenter(p[2])
        center_v == PixelCenter(p[1])
        size_u == Uniform(One \div 20, One \div 5, ju)
        size_v == Uniform(One \div 20, One \div 5, jv)
        box == << ClampLo(center_u - size_u \div 2), ClampHi(center_u + size_u \div 2),
                  ClampLo(center_v - size_v \div 2), ClampHi(center_v + size_v \div 2) >>
    IN  [op_type    |-> "extrude_region",
         uv_box     |-> box,
         params     |-> [mode |-> "solid",
                         direction |-> dir,
                         heightMm |-> Uniform(One, 10 * One, jh),
                         taperAngleDegrees |-> Uniform(0, 10 * One, jt),
                         capType |-> "flat"],
         mask       |-> BoxMask(box),
         vertex_ids |-> VertexIds(m, box)]

(***************************************************************************)
(* The sampler's arguments.                                                *)
(***************************************************************************)
\* a mesh with vertices at the UV origin, at the center of pixel <<1, 1>>, at
\* distance 0.1 from that center along each axis, just past that, and at (1, 1)
ProbeMesh ==
    [uv    |-> << <<0, 0>>, <<10, 10>>, <<10 - R, 10>>, <<10 + R, 10>>,
                  <<10, 10 - R>>, <<10, 10 + R>>, <<10 + R + 1, 10>>,
                  <<10 * R, 10 * R>> >>,
     faces |-> << <<0, 1, 2>> >>,
     den   |-> 10 * R]

SamplerMeshes == { ProbeMesh, Plate(200, 150, 5) }

\* grids of one value, and grids with one nonzero pixel
SamplerGrids ==
    { [p \in Pixels |-> x] : x \in 0..VDen }
    \cup { [p \in Pixels |-> IF p = q THEN x ELSE 0] : q \in Pixels, x \in 1..VDen }

\* the draws of the two parameters no geometry depends on: their extremes
RandEnds == {0, RandSteps}

RenderIdle ==
    /\ occ = ZeroGrid
    /\ face_i = 0
    /\ rpc = "idle"
    /\ div_zero = FALSE

SamplerInit ==
    /\ mesh \in SamplerMeshes
    /\ uv_grid \in { <<g>> : g \in SamplerGrids }
    /\ sampler \in Configs
    /\ sret = "pending"
    /\ op_gt = NoOp
    /\ rng = 0
    /\ RenderIdle
    /\ AppIdle
    /\ OtherIdle

\* OperationSampler.sample_hole(mesh, uv_grid, resolution)
SampleHole ==
    /\ sret = "pending"
    /\ IF ValidPixels(uv_grid[1]) = {}
       THEN sret' = "None" /\ op_gt' = op_gt /\ rng' = rng
       ELSE \E p \in ValidPixels(uv_grid[1]), j \in Rand :
               /\ op_gt' = HoleOp(mesh, sampler, p, j)
               /\ sret' = "op"
               \* np.random.randint, np.random.uniform
               /\ rng' = rng + 2
    /\ UNCHANGED <<rvars, sampler, avars, xvars>>

\* OperationSampler.sample_extrude(mesh, uv_grid, resolution)
SampleExtrude ==
    /\ sret = "pending"
    /\ IF ValidPixels(uv_grid[1]) = {}
       THEN sret' = "None" /\ op_gt' = op_gt /\ rng' = rng
       ELSE \E p \in ValidPixels(uv_grid[1]), ju \in Rand, jv \in Rand,
               dir \in {"outward_surface_normal", "axis_z"},
               jh \in RandEnds, jt \in RandEnds :
               /\ op_gt' = ExtrudeOp(mesh, p, ju, jv, dir, jh, jt)
               /\ sret' = "op"
               \* randint, uniform, uniform, choice, uniform, uniform
               /\ rng' = rng + 6
    /\ UNCHANGED <<rvars, sampler, avars, xvars>>

SamplerNext == SampleHole \/ SampleExtrude

SpecSampler == SamplerInit /\ [][SamplerNext]_vars

(***************************************************************************)
(* C3: sample_hole and sample_extrude return None if and only if channel 0 *)
(* of the grid has no pixel with value > 0.5; otherwise they return an     *)
(* operation.                                                              *)
(***************************************************************************)
C3_NoneIffEmpty ==
    /\ sret \in {"pending", "None", "op"}
    /\ sret # "pending" =>
         /\ sret = "None" <=> (\A p \in Pixels : 2 * uv_grid[1][p] <= VDen)
         /\ sret = "op" <=> op_gt.op_type \in {"add_hole", "extrude_region"}

\* None was returned for a grid that has nonzero pixels, none above 0.5
C3_Witness ==
    /\ sret = "None"
    /\ \E p \in Pixels : uv_grid[1][p] > 0

(***************************************************************************)
(* C4: vertex_ids of a returned operation is exactly the set of vertex     *)
(* indices i with uMin <= uv[i].u <= uMax and vMin <= uv[i].v <= vMax for  *)
(* the returned uv_box: boundaries included.                               *)
(***************************************************************************)
\* uv[i] of the mesh against a bound of the box, both as fractions
UvOf(i, axis) == mesh.uv[i + 1][axis] * One
BoxOf(k) == op_gt.uv_box[k] * mesh.den

C4_VertexIdsExact ==
    sret = "op" =>
        { op_gt.vertex_ids[k] : k \in 1..Len(op_gt.vertex_ids) }
          = { i \in 0..(Len(mesh.uv) - 1) :
                /\ BoxOf(1) <= UvOf(i, 1) /\ UvOf(i, 1) <= BoxOf(2)
                /\ BoxOf(3) <= UvOf(i, 2) /\ UvOf(i, 2) <= BoxOf(4) }

\* an operation with a vertex strictly inside its box, one on uMax exactly (and
\* inside in v), and one outside
C4_Witness ==
    /\ sret = "op"
    /\ \E i \in 0..(Len(mesh.uv) - 1) :
         /\ BoxOf(1) < UvOf(i, 1) /\ UvOf(i, 1) < BoxOf(2)
         /\ BoxOf(3) < UvOf(i, 2) /\ UvOf(i, 2) < BoxOf(4)
    /\ \E i \in 0..(Len(mesh.uv) - 1) :
         /\ UvOf(i, 1) = BoxOf(2)
         /\ BoxOf(3) < UvOf(i, 2) /\ UvOf(i, 2) < BoxOf(4)
         /\ \E k \in 1..Len(op_gt.vertex_ids) : op_gt.vertex_ids[k] = i
    /\ \E i \in 0..(Len(mesh.uv) - 1) : UvOf(i, 1) > BoxOf(2)

C6_DiameterInBounds ==
    (sret = "op" /\ op_gt.op_type = "add_hole") =>
        LET dmm == op_gt.params.diameterMm
        IN  /\ sampler.min_feature_size * One <= 2 * dmm
            /\ 5 * dmm <= 100 * One
            /\ dmm <= 100 * One - sampler.min_wall_thickness * One

\* a hole of the largest diameter where the wall thickness sets the bound
C6_Witness ==
    /\ sret = "op"
    /\ op_gt.op_type = "add_hole"
    /\ sampler.min_wall_thickness = 90
    /\ 10 * op_gt.params.diameterMm = 100 * One

(***************************************************************************)
(* app.py postprocess_mask(mask, threshold = 0.5).                         *)
(* scipy.ndimage.label with its default structure joins pixels that share  *)
(* an edge (4-connectivity) and numbers the components 1, 2, ... in the    *)
(* order a row-major scan meets their first pixel.                         *)
(***************************************************************************)
\* binary = (mask > threshold), as the set of its pixels
Binary(mask) == { p \in Pixels : Gt05(mask[p]) }

\* pixels that share an edge
Adj(p, q) ==
    \/ (p[1] = q[1] /\ (p[2] - q[2] = 1 \/ q[2] - p[2] = 1))
    \/ (p[2] = q[2] /\ (p[1] - q[1] = 1 \/ q[1] - p[1] = 1))

\* the component of B that contains the pixel set C, grown to a fixed point
RECURSIVE Grow(_, _)
Grow(B, C) ==
    LET N == { q \in B \ C : \E c \in C : Adj(q, c) }
    IN  IF N = {} THEN C ELSE Grow(B, C \cup N)

\* the position of a pixel in a row-major scan
ScanIndex(p) == p[1] * R + p[2]
FirstPixel(B) == CHOOSE p \in B : \A q \in B : ScanIndex(p) <= ScanIndex(q)

\* labeled, num_features = ndimage.label(binary): the components by label, 1 ..
RECURSIVE Label(_)
Label(B) ==
    IF B = {}
    THEN <<>>
    ELSE LET c == Grow(B, {FirstPixel(B)})
         IN  <<c>> \o Label(B \ c)

\* np.argmax(sizes) + 1: the first label of maximal size
ArgMaxLast(sizes) ==
    CHOOSE i \in 1..Len(sizes) :
        /\ \A k \in 1..Len(sizes) : sizes[k] <= sizes[i]
        /\ \A k \in (i + 1)..Len(sizes) : sizes[k] < sizes[i]
ArgMax(sizes) ==
    CHOOSE i \in 1..Len(sizes) :
        /\ \A k \in 1..Len(sizes) : sizes[k] <= sizes[i]
        /\ \A k \in 1..(i - 1) : sizes[k] < sizes[i]

PostprocessMask(mask) ==
    LET binary == Binary(mask)
        labeled == Label(binary)
        num_features == Len(labeled)
        \* ndimage.sum(binary, labeled, range(1, num_features + 1))
        component_sizes == [k \in 1..num_features |-> Cardinality(labeled[k])]
    IN  IF num_features = 0
        THEN [p \in Pixels |-> IF p \in binary THEN V1 ELSE 0]
        ELSE [p \in Pixels |->
                 IF p \in labeled[ArgMax(component_sizes)] THEN V1 ELSE 0]

\* the soft masks: at most MaxOn pixels above the threshold, with one value on
\* those pixels and one value elsewhere; the pairs are (0, 1) and the two
\* lattice values around the threshold
ValuePairs == { <<0, VDen>>, <<VDen \div 2, (VDen \div 2) + 1>> }
IsSoftMask(m) ==
    \E S \in SUBSET Pixels, vp \in ValuePairs :
        /\ Cardinality(S) <= MaxOn
        /\ m = [p \in Pixels |-> IF p \in S THEN vp[2] ELSE vp[1]]

PostInit ==
    /\ IsSoftMask(mask_pred)
    /\ params_pred = <<0, 0, 0, 0, 0>>
    /\ mask_processed = ZeroGrid
    /\ mask_vertex_ids = <<>>
    /\ confidence = 0
    /\ apc = "call"
    /\ mesh = Plate(200, 150, 5)
    /\ uv_grid = <<>>
    /\ RenderIdle
    /\ SamplerIdle
    /\ OtherIdle

Postprocess ==
    /\ apc = "call"
    /\ mask_processed' = PostprocessMask(mask_pred)
    /\ apc' = "done"
    /\ UNCHANGED <<rvars, svars, mask_pred, params_pred, mask_vertex_ids, confidence, xvars>>

SpecPost == PostInit /\ [][Postprocess]_vars

(***************************************************************************)
(* Connected components, stated without computing them: a component of B   *)
(* is a non-empty part of B that cannot be split into two parts without a  *)
(* pair of edge-sharing pixels across the split, and that no other pixel   *)
(* of B touches.                                                           *)
(***************************************************************************)
Touch(p, q) == (p[1] - q[1]) * (p[1] - q[1]) + (p[2] - q[2]) * (p[2] - q[2]) = 1

Connected(C) ==
    \A A \in SUBSET C :
        A = {} \/ A = C \/ \E x \in A, y \in C \ A : Touch(x, y)

IsComponent(B, C) ==
    /\ C # {}
    /\ \A x \in C, y \in B \ C : ~Touch(x, y)
    /\ Connected(C)

Components(B) == { C \in SUBSET B : IsComponent(B, C) }
Above(mask) == { p \in Pixels : 2 * mask[p] > VDen }
SetPixels(grid) == { p \in Pixels : grid[p] = V1 }
\* the scan position of the first pixel of a component
FirstScan(C) == CHOOSE n \in 0..(R * R - 1) :
                   /\ \E p \in C : p[1] * R + p[2] = n
                   /\ \A p \in C : p[1] * R + p[2] >= n

(***************************************************************************)
(* C7: postprocess_mask returns the all-zero mask when no pixel exceeds    *)
(* the threshold; otherwise a binary mask whose set pixels are exactly the *)
(* connected component of the thresholded mask with the most pixels, the   *)
(* one found first in scan order when several tie.                         *)
(***************************************************************************)
C7_LargestComponent ==
    apc = "done" =>
        \A CS \in {Components(Above(mask_pred))}, T \in {SetPixels(mask_processed)} :
            /\ \A p \in Pixels : mask_processed[p] \in {0, V1}
            /\ CS = {} => T = {}
            /\ CS # {} =>
                 /\ T \in CS
                 /\ \A C \in CS :
                      \/ Cardinality(C) < Cardinality(T)
                      \/ /\ Cardinality(C) = Cardinality(T)
                         /\ FirstScan(T) <= FirstScan(C)

\* two components of different sizes with the smaller first in scan order, and
\* the larger one returned
C7_Witness ==
    /\ apc = "done"
    /\ \E CS \in {Components(Above(mask_pred))} :
          \E C \in CS, D \in CS :
              /\ Cardinality(C) < Cardinality(D)
              /\ FirstScan(C) < FirstScan(D)
              /\ SetPixels(mask_processed) = D

\* two components tie for largest and the first in scan order is returned
C7_WitnessTie ==
    /\ apc = "done"
    /\ \E CS \in {Components(Above(mask_pred))} :
          \E C \in CS, D \in CS :
              /\ C # D
              /\ Cardinality(C) = Cardinality(D)
              /\ \A E \in CS : Cardinality(E) <= Cardinality(C)
              /\ SetPixels(mask_processed) = C

(***************************************************************************)
(* app.py refine, the vertex selection (lines 207-219).  The grid side R   *)
(* stands for the 256 of the code.  A mesh without uv (None or empty) gets *)
(* uv = vertices[:, :2] / (vertices[:, :2].max() + 1e-6), here the exact   *)
(* fractions (x * Mega) / (max * Mega + 1).                                *)
(***************************************************************************)
\* 1 / 1e-6
Mega == 1000000

Abs(n) == IF n < 0 THEN -n ELSE n
\* int(n / d): Python's int() drops the fractional part, towards zero
IntFloor(n, d) == IF d < 0 THEN (-n) \div (-d) ELSE n \div d
IntTrunc(n, d) ==
    IF (n < 0) # (d < 0) THEN -(Abs(n) \div Abs(d)) ELSE Abs(n) \div Abs(d)

RECURSIVE SeqMax(_)
SeqMax(q) == IF Len(q) = 1 THEN q[1] ELSE Max2(q[1], SeqMax(Tail(q)))

\* mesh_uv, as the sequence of numerators and their common denominator
MeshUV(m) ==
    IF m.uv # <<>>
    THEN [uv |-> m.uv, den |-> m.den]
    ELSE LET xy == [i \in 1..Len(m.vertices) |->
                       Max2(m.vertices[i][1], m.vertices[i][2])]
         IN  [uv  |-> [i \in 1..Len(m.vertices) |->
                          <<m.vertices[i][1] * Mega, m.vertices[i][2] * Mega>>],
              den |-> SeqMax(xy) * Mega + 1]

\* the loop over enumerate(mesh_uv): the ids appended, in order
SelectVertexIds(m, mask) ==
    LET mu == MeshUV(m)
        u_idx(i) == IntTrunc(mu.uv[i + 1][1] * R, mu.den)
        v_idx(i) == IntTrunc(mu.uv[i + 1][2] * R, mu.den)
        Keep(i) ==
            /\ 0 <= u_idx(i) /\ u_idx(i) < R
            /\ 0 <= v_idx(i) /\ v_idx(i) < R
            /\ Gt05(mask[<<v_idx(i), u_idx(i)>>])
    IN  SelectSeq([k \in 1..Len(mu.uv) |-> k - 1], Keep)

\* request meshes of two vertices: with uv, the first anywhere on the
\* half-pixel lattice from -1/R to 1 + 1/R and the second at the middle or at
\* (1, 1); without uv, integer vertices with a largest coordinate of R + 1
HalfPix == (-2)..(2 * R + 2)
IsSelectMesh(m) ==
    \/ \E a \in HalfPix \X HalfPix, b \in { <<R, R>>, <<2 * R, 2 * R>> } :
          m = [vertices |-> << <<0, 0, 0>>, <<1, 1, 0>> >>,
               uv |-> <<a, b>>, faces |-> <<>>, den |-> 2 * R]
    \/ \E x \in (-1)..(R + 1), y \in (-1)..(R + 1), none \in {0, 1} :
          m = [vertices |-> << <<x, y, 0>>, <<R + 1, 0, 0>> >>,
               uv |-> <<>>, faces |-> <<>>, den |-> none]

\* postprocessed masks: all-zero, all-one, or one pixel set
IsProcessedMask(g) ==
    \/ \E x \in {0, V1} : g = [p \in Pixels |-> x]
    \/ \E q \in Pixels : g = [p \in Pixels |-> IF p = q THEN V1 ELSE 0]

SelectInit ==
    /\ IsSelectMesh(mesh)
    /\ IsProcessedMask(mask_processed)
    /\ mask_pred = mask_processed
    /\ params_pred = <<0, 0, 0, 0, 0>>
    /\ mask_vertex_ids = <<>>
    /\ confidence = 0
    /\ apc = "select"
    /\ uv_grid = <<>>
    /\ RenderIdle
    /\ SamplerIdle
    /\ OtherIdle

SelectVertices ==
    /\ apc = "select"
    /\ mask_vertex_ids' = SelectVertexIds(mesh, mask_processed)
    /\ apc' = "selected"
    /\ UNCHANGED <<rvars, svars, mask_pred, params_pred, mask_processed, confidence, xvars>>

SpecSelect == SelectInit /\ [][SelectVertices]_vars

\* the ids of a list
Ids(q) == { q[k] : k \in 1..Len(q) }

(***************************************************************************)
(* C8: vertex i is in mask_vertex_ids if and only if floor(u * R) and      *)
(* floor(v * R) both lie in [0, R) and the postprocessed mask is set at    *)
(* that pixel; every vertex with u < 0, v < 0, u >= 1 or v >= 1 is left    *)
(* out.                                                                    *)
(***************************************************************************)
C8_SelectedIffFloorInMask ==
    apc = "selected" =>
        \A MU \in {MeshUV(mesh)} :
            \A i \in 0..(Len(MU.uv) - 1) :
                LET fu == IntFloor(MU.uv[i + 1][1] * R, MU.den)
                    fv == IntFloor(MU.uv[i + 1][2] * R, MU.den)
                IN  /\ i \in Ids(mask_vertex_ids) <=>
                          /\ fu \in 0..(R - 1)
                          /\ fv \in 0..(R - 1)
                          /\ mask_processed[<<fv, fu>>] = V1
                    /\ (fu < 0 \/ fv < 0 \/ fu >= R \/ fv >= R)
                          => i \notin Ids(mask_vertex_ids)

(***************************************************************************)
(* The round trip: UVGridRenderer.render on a plate of the generator, then *)
(* the vertex selection of refine with the occupancy grid as the mask.     *)
(***************************************************************************)
\* the lengths and widths of the plates, in mm
PlateSizes == {50, 100, 150, 200, 250, 300}

RoundTripInit ==
    /\ \E l \in PlateSizes, w \in PlateSizes : mesh = Plate(l, w, 5)
    /\ occ = ZeroGrid
    /\ face_i = 0
    /\ rpc = "loop"
    /\ div_zero = FALSE
    /\ uv_grid = <<>>
    /\ SamplerIdle
    /\ AppIdle
    /\ OtherIdle

\* the selection loop run on the grid render returned
SelectOnOccupancy ==
    /\ rpc = "done"
    /\ apc = "idle"
    /\ mask_processed' = uv_grid[1]
    /\ mask_vertex_ids' = SelectVertexIds(mesh, uv_grid[1])
    /\ apc' = "selected"
    /\ UNCHANGED <<rvars, svars, mask_pred, params_pred, confidence, xvars>>

RoundTripNext == RenderFace \/ RenderReturn \/ SelectOnOccupancy

SpecRoundTrip == RoundTripInit /\ [][RoundTripNext]_vars

(***************************************************************************)
(* C9: rasterizing plate(200, 150, 5) and running the vertex selection on  *)
(* the occupancy grid returns all four vertex indices {0, 1, 2, 3}.        *)
(***************************************************************************)
C9_RoundTripAllVertices ==
    (apc = "selected" /\ mesh = Plate(200, 150, 5))
        => Ids(mask_vertex_ids) = {0, 1, 2, 3}

(***************************************************************************)
(* app.py compute_confidence(mask, params), on the float32 arrays refine   *)
(* passes.  A float32 has 24 significant bits and every operation rounds   *)
(* to nearest, ties to even.  A parameter is an integer count of 2^-21,    *)
(* the float32 spacing between 4 and 8; mask confidence, parameter         *)
(* confidence and their sum are integer counts of 2^-25.  For a constant   *)
(* parameter vector every step is the float32 operation exactly; for other *)
(* vectors np.sqrt, and for soft masks np.log, are rounded to the unit.    *)
(***************************************************************************)
RECURSIVE Pow2(_)
Pow2(n) == IF n = 0 THEN 1 ELSE 2 * Pow2(n - 1)

\* the spacing of the float32 values around the count n >= 0
RECURSIVE Spacing(_)
Spacing(n) == IF n < Pow2(24) THEN 1 ELSE 2 * Spacing(n \div 2)

\* n / q rounded to an integer, ties to even
RoundHalfEven(n, q) ==
    LET f == n \div q
        r == n % q
    IN  IF 2 * r < q THEN f
        ELSE IF 2 * r > q THEN f + 1
        ELSE IF f % 2 = 0 THEN f ELSE f + 1

\* the float32 nearest to the count n, and to the quotient s / n
F32(n) == Spacing(n) * RoundHalfEven(n, Spacing(n))
F32Quot(s, n) == Spacing(s \div n) * RoundHalfEven(s, n * Spacing(s \div n))

\* np.add.reduce over a short float32 array: one accumulator, left to right
RECURSIVE F32Sum(_, _)
F32Sum(q, acc) == IF q = <<>> THEN acc ELSE F32Sum(Tail(q), F32(acc + Head(q)))

RECURSIVE ISqrtFrom(_, _)
ISqrtFrom(n, r) == IF (r + 1) * (r + 1) > n THEN r ELSE ISqrtFrom(n, r + 1)

\* np.std(params) / 2.0 in units of 2^-25: arrmean = sum / n, x = arr - arrmean,
\* sqrt(sum(x * x) / n); a parameter unit is 16 of these units
StdHalf(params) ==
    LET n == Len(params)
        arrmean == F32Quot(F32Sum(Tail(params), Head(params)), n)
        x == [i \in 1..n |-> params[i] - arrmean]
        xx == [i \in 1..n |-> x[i] * x[i]]
        sumsq == F32Sum(Tail(xx), Head(xx))
    IN  ISqrtFrom((64 * sumsq) \div n, 0)

\* 1.0 in units of 2^-25
ConfOne == Pow2(25)
\* np.clip(x, 0, 1)
Clip(x) == Max2(0, Min2(x, ConfOne))

\* np.log(x + 1e-7) in units of 2^-25, for the float32 x = s / 6; for x = 1
\* the float32 sum 1 + 1e-7 is 1 + 2^-23
LogEps(s) ==
    CASE s = 0 -> -540833544
      [] s = 2 -> -36863301
      [] s = 3 -> -23258152
      [] s = 4 -> -13605144
      [] s = 6 -> 4

\* mask * np.log(mask + 1e-7) + (1 - mask) * np.log(1 - mask + 1e-7), one pixel
PixelTerm(n) ==
    (n * LogEps((6 * n) \div VDen)
       + (VDen - n) * LogEps((6 * (VDen - n)) \div VDen)) \div VDen

RECURSIVE SumTerms(_, _)
SumTerms(mask, P) ==
    IF P = {} THEN 0
    ELSE LET p == CHOOSE q \in P : TRUE
         IN  PixelTerm(mask[p]) + SumTerms(mask, P \ {p})

\* mask_entropy / 10.0 in units of 2^-25
EntropyTenth(mask) == (-SumTerms(mask, Pixels)) \div (10 * R * R)

\* (mask_conf + param_conf) / 2.0 in units of 2^-26
ComputeConfidence(mask, params) ==
    LET mask_conf == F32(ConfOne - Clip(EntropyTenth(mask)))
        param_conf == F32(ConfOne - Clip(StdHalf(params)))
    IN  F32(mask_conf + param_conf)

\* float32 parameter values: 0, 4.0, and 7.0 with the values that follow it
Seven == 7 * Pow2(21)
ParamNear == Seven..(Seven + ParamSpan)
ParamValues == {0, Pow2(23)} \cup ParamNear
IsParams(v) ==
    \/ \E c \in ParamValues : v = <<c, c, c, c, c>>
    \/ \E c \in ParamNear, d \in ParamNear : v = <<c, c, c, c, d>>

\* masks of one value, and masks with one nonzero pixel
IsConfMask(g) ==
    \/ \E x \in 0..VDen : g = [p \in Pixels |-> x]
    \/ \E q \in Pixels, x \in 1..VDen : g = [p \in Pixels |-> IF p = q THEN x ELSE 0]

ConfInit ==
    /\ IsConfMask(mask_pred)
    /\ IsParams(params_pred)
    /\ mask_processed = PostprocessMask(mask_pred)
    /\ mask_vertex_ids = <<>>
    /\ confidence = 0
    /\ apc = "conf"
    /\ mesh = Plate(200, 150, 5)
    /\ uv_grid = <<>>
    /\ RenderIdle
    /\ SamplerIdle
    /\ OtherIdle

Confidence ==
    /\ apc = "conf"
    /\ confidence' = ComputeConfidence(mask_pred, params_pred)
    /\ apc' = "scored"
    /\ UNCHANGED <<rvars, svars, mask_pred, params_pred, mask_processed, mask_vertex_ids, xvars>>

SpecConf == ConfInit /\ [][Confidence]_vars

(***************************************************************************)
(* C10: compute_confidence returns exactly 1.0 for every mask whose pixels *)
(* are all exactly 0 or 1 combined with every constant parameter vector.   *)
(***************************************************************************)
BinaryMask(mask) == \A p \in Pixels : mask[p] \in {0, V1}
ConstantVector(v) == \A i \in 1..Len(v) : v[i] = v[1]

C10_BinaryConstantIsOne ==
    (apc = "scored" /\ BinaryMask(mask_pred) /\ ConstantVector(params_pred))
        => confidence = Pow2(26)

(***************************************************************************)
(* DatasetSynthesizer._extract_params_vector(op_gt).  A millimetre or      *)
(* degree parameter is an integer count of 1/One; a slot of the vector is  *)
(* an integer count of 1 / (900 * One), so that x / 100.0 is 9 * x and     *)
(* x / 90.0 is 10 * x.  The cast of the vector to float32 is not modelled. *)
(***************************************************************************)
\* op_gt.params.get(key, 0)
Get(params, key) == IF key \in DOMAIN params THEN params[key] ELSE 0

ExtractParamsVectorSameScale(op) ==
    IF op.op_type = "add_hole"
    THEN <<9 * Get(op.params, "diameterMm"), 0, 0, 0, 0>>
    ELSE IF op.op_type = "extrude_region"
    THEN <<0, 9 * Get(op.params, "heightMm"),
              9 * Get(op.params, "taperAngleDegrees"), 0, 0>>
    ELSE <<0, 0, 0, 0, 0>>
ExtractParamsVector(op) ==
    IF op.op_type = "add_hole"
    THEN <<9 * Get(op.params, "diameterMm"), 0, 0, 0, 0>>
    ELSE IF op.op_type = "extrude_region"
    THEN <<0, 9 * Get(op.params, "heightMm"),
              10 * Get(op.params, "taperAngleDegrees"), 0, 0>>
    ELSE <<0, 0, 0, 0, 0>>

\* the operations the samplers return for the probe mesh, the same with another
\* op_type, and operations whose params lack the keys
IsSampledOp(op) ==
    \/ \E cfg \in Configs, p \in Pixels, j \in Rand : op = HoleOp(ProbeMesh, cfg, p, j)
    \/ \E p \in Pixels, ju \in Rand, jv \in Rand, jh \in Rand, jt \in Rand :
          op = ExtrudeOp(ProbeMesh, p, ju, jv, "axis_z", jh, jt)
IsParamsOp(op) ==
    \/ IsSampledOp(op)
    \/ \E o \in { HoleOp(ProbeMesh, cfg, <<1, 1>>, j) : cfg \in Configs, j \in Rand },
          t \in {"fillet", ""} :
          op = [o EXCEPT !.op_type = t]
    \/ \E t \in {"add_hole", "extrude_region", "fillet"} :
          op = [op_type |-> t, uv_box |-> <<0, One, 0, One>>,
                params |-> [mode |-> "solid"], mask |-> ZeroGrid, vertex_ids |-> <<>>]

ParamsInit ==
    /\ IsParamsOp(op_gt)
    /\ sret = "op"
    /\ sampler \in Configs
    /\ rng = 0
    /\ mesh = ProbeMesh
    /\ uv_grid = <<>>
    /\ params_gt = <<>>
    /\ gpc = "extract"
    /\ g_op_type = op_gt.op_type
    /\ gret = Pending
    /\ RenderIdle
    /\ AppIdle
    /\ HandlerIdle
    /\ TrainIdle

ExtractParams ==
    /\ gpc = "extract"
    /\ params_gt' = ExtractParamsVector(op_gt)
    /\ gpc' = "extracted"
    /\ UNCHANGED <<rvars, svars, avars, g_op_type, gret, hvars, tvars>>

SpecParams == ParamsInit /\ [][ExtractParams]_vars

(***************************************************************************)
(* C11: the vector has exactly 5 slots for every op_type; for add_hole     *)
(* slot 0 is diameterMm / 100 and slots 1-4 are 0; for extrude_region slot *)
(* 0 is 0, slot 1 is heightMm / 100, slot 2 is taperAngleDegrees / 90 and  *)
(* slots 3-4 are 0.  A slot s stands for s / (900 * One) and a parameter x *)
(* for x / One, so slot = x / k reads k * s = 900 * x.                     *)
(***************************************************************************)
C11_FiveSlotsByType ==
    gpc = "extracted" =>
        /\ Len(params_gt) = 5
        /\ op_gt.op_type = "add_hole" =>
              /\ "diameterMm" \in DOMAIN op_gt.params
                    => 100 * params_gt[1] = 900 * op_gt.params.diameterMm
              /\ \A k \in 2..5 : params_gt[k] = 0
        /\ op_gt.op_type = "extrude_region" =>
              /\ params_gt[1] = 0
              /\ "heightMm" \in DOMAIN op_gt.params
                    => 100 * params_gt[2] = 900 * op_gt.params.heightMm
              /\ "taperAngleDegrees" \in DOMAIN op_gt.params
                    => 90 * params_gt[3] = 900 * op_gt.params.taperAngleDegrees
              /\ \A k \in 4..5 : params_gt[k] = 0

\* an extrusion with a nonzero height and taper, encoded in slots 1 and 2
C11_Witness ==
    /\ gpc = "extracted"
    /\ op_gt.op_type = "extrude_region"
    /\ op_gt.params.taperAngleDegrees > 0
    /\ params_gt[3] > 0
    /\ params_gt[2] > 0

(***************************************************************************)
(* C12: a mesh with a face index outside [0, len(vertices)), a negative    *)
(* index included, is rejected before any pixel is rasterized: no pixel is *)
(* ever set for it and render never returns a grid for it.  (The meshes    *)
(* of SpecRender have as many uv entries as vertices.)                     *)
(***************************************************************************)
MalformedFaces(m) ==
    \E f \in 1..Len(m.faces), k \in 1..3 :
        m.faces[f][k] < 0 \/ m.faces[f][k] >= Len(m.uv)

C12_MalformedRejected ==
    MalformedFaces(mesh) =>
        /\ \A p \in Pixels : occ[p] = 0
        /\ rpc # "done"
        /\ uv_grid = <<>>

(***************************************************************************)
(* DatasetSynthesizer.generate_sample(op_type): a mesh of the generator,   *)
(* render, the sampler for the op_type, the envelope and the params        *)
(* vector.  The synthesizer's sampler is OperationSampler() with its       *)
(* defaults.                                                               *)
(***************************************************************************)
\* MeshGenerator.box: the plate's four uv points twice, twelve faces
Box(length, width, height) ==
    LET pl == Plate(length, width, height)
    IN  [uv    |-> pl.uv \o pl.uv,
         faces |-> << <<0, 1, 2>>, <<0, 2, 3>>, <<4, 7, 6>>, <<4, 6, 5>>,
                      <<0, 4, 5>>, <<0, 5, 1>>, <<2, 6, 7>>, <<2, 7, 3>>,
                      <<0, 3, 7>>, <<0, 7, 4>>, <<1, 5, 6>>, <<1, 6, 2>> >>,
         den   |-> pl.den]

\* values of np.random.uniform(50, 200) and of np.random.uniform(100, 300)
BoxSizes == {50, 100, 200}
GenPlateSizes == {100, 200, 300}
OpTypes == {"add_hole", "extrude_region", "fillet"}
NoMesh == [uv |-> <<>>, faces |-> <<>>, den |-> 1]

\* Sample(mesh_id, uv_grid, mask_gt, params_gt, envelope_gt), without the ids
MakeSample(grid, op, vec) ==
    [kind      |-> "Sample",
     uv_grid   |-> grid,
     mask_gt   |-> op.mask,
     params_gt |-> vec,
     envelope_gt |-> [type |-> op.op_type, uvBox |-> op.uv_box,
                      params |-> op.params]]

GenInit ==
    /\ g_op_type \in OpTypes
    /\ gpc = "mesh"
    /\ gret = Pending
    /\ params_gt = <<>>
    /\ mesh = NoMesh
    /\ uv_grid = <<>>
    /\ RenderIdle
    /\ SamplerIdle
    /\ AppIdle
    /\ HandlerIdle
    /\ TrainIdle

\* np.random.rand() < 0.5, then three np.random.uniform for the sizes
GenMesh ==
    /\ gpc = "mesh"
    /\ \/ \E l \in BoxSizes, w \in BoxSizes : mesh' = Box(l, w, 10)
       \/ \E l \in GenPlateSizes, w \in GenPlateSizes : mesh' = Plate(l, w, 2)
    /\ rng' = rng + 4
    /\ gpc' = "render"
    /\ rpc' = "loop"
    /\ UNCHANGED <<occ, face_i, div_zero, uv_grid, sampler, sret, op_gt, avars,
                   params_gt, g_op_type, gret, hvars, tvars>>

\* op_gt = self.sampler.sample_hole(mesh, uv_grid, self.resolution)
GenSampleHole ==
    /\ gpc = "render" /\ rpc = "done"
    /\ g_op_type = "add_hole"
    /\ IF ValidPixels(uv_grid[1]) = {}
       THEN /\ sret' = "None" /\ op_gt' = op_gt /\ rng' = rng
            /\ gret' = NoSample /\ gpc' = "returned"
       ELSE \E p \in ValidPixels(uv_grid[1]), j \in Rand :
               /\ op_gt' = HoleOp(mesh, sampler, p, j)
               /\ sret' = "op"
               /\ rng' = rng + 2
               /\ gret' = gret /\ gpc' = "envelope"
    /\ UNCHANGED <<rvars, sampler, avars, params_gt, g_op_type, hvars, tvars>>

\* op_gt = self.sampler.sample_extrude(mesh, uv_grid, self.resolution)
GenSampleExtrude ==
    /\ gpc = "render" /\ rpc = "done"
    /\ g_op_type = "extrude_region"
    /\ IF ValidPixels(uv_grid[1]) = {}
       THEN /\ sret' = "None" /\ op_gt' = op_gt /\ rng' = rng
            /\ gret' = NoSample /\ gpc' = "returned"
       ELSE \E p \in ValidPixels(uv_grid[1]), ju \in Rand, jv \in Rand,
               dir \in {"outward_surface_normal", "axis_z"},
               jh \in RandEnds, jt \in RandEnds :
               /\ op_gt' = ExtrudeOp(mesh, p, ju, jv, dir, jh, jt)
               /\ sret' = "op"
               /\ rng' = rng + 6
               /\ gret' = gret /\ gpc' = "envelope"
    /\ UNCHANGED <<rvars, sampler, avars, params_gt, g_op_type, hvars, tvars>>

\* else: return None
GenUnsupported ==
    /\ gpc = "render" /\ rpc = "done"
    /\ g_op_type \notin {"add_hole", "extrude_region"}
    /\ gret' = NoSample
    /\ gpc' = "returned"
    /\ UNCHANGED <<rvars, svars, avars, params_gt, g_op_type, hvars, tvars>>

\* the envelope (np.random.randint for opId), the params vector, and the Sample
\* (np.random.randint for mesh_id)
GenReturn ==
    /\ gpc = "envelope"
    /\ params_gt' = ExtractParamsVector(op_gt)
    /\ gret' = MakeSample(uv_grid, op_gt, ExtractParamsVector(op_gt))
    /\ rng' = rng + 2
    /\ gpc' = "returned"
    /\ UNCHANGED <<rvars, sampler, sret, op_gt, avars, g_op_type, hvars, tvars>>

GenNext ==
    \/ GenMesh \/ RenderFace \/ RenderReturn
    \/ GenSampleHole \/ GenSampleExtrude \/ GenUnsupported \/ GenReturn

SpecGenerate == GenInit /\ [][GenNext]_vars

(***************************************************************************)
(* C13: an op type other than add_hole or extrude_region is surfaced as a  *)
(* failure of its own: generate_sample's no-sample outcome None only ever  *)
(* means that the region was empty, never that the op type was unknown.    *)
(***************************************************************************)
C13_UnsupportedDistinct ==
    (gpc = "returned" /\ gret = NoSample) =>
        /\ g_op_type \in {"add_hole", "extrude_region"}
        /\ ValidPixels(uv_grid[1]) = {}

(***************************************************************************)
(* C14: sample_hole and sample_extrude are side-effect-free: a call leaves *)
(* its arguments (mesh, uv_grid), the sampler, and the state shared        *)
(* between calls, the random-number generator's state included, as they    *)
(* were.                                                                   *)
(***************************************************************************)
C14_NoSharedStateTouched ==
    [][/\ mesh' = mesh
       /\ uv_grid' = uv_grid
       /\ sampler' = sampler
       /\ rng' = rng]_vars

(***************************************************************************)
(* C15: occupancy is an accumulative OR over the faces: a pixel that is 1  *)
(* is never cleared by a later face, every pixel is always 0 or 1, after   *)
(* each face the set pixels are the union of the coverages of the faces    *)
(* processed so far, and the returned grid is the union over all faces,    *)
(* whatever their order.                                                   *)
(***************************************************************************)
CoverageUnion(m, n) == UNION { FaceCovered(m, f) : f \in 1..n }

C15_AccumulativeOr ==
    /\ [][\A p \in Pixels : occ[p] = V1 => occ'[p] = V1]_vars
    /\ [](\A p \in Pixels : occ[p] \in {0, V1})
    /\ [](rpc = "loop" =>
            { p \in Pixels : occ[p] = V1 } = CoverageUnion(mesh, face_i))
    /\ [](rpc = "done" =>
            { p \in Pixels : uv_grid[1][p] = V1 } = CoverageUnion(mesh, Len(mesh.faces)))

\* the second face has been processed, each of the two faces covers a pixel the
\* other does not, and both pixels are set
C15_Witness ==
    /\ rpc = "loop"
    /\ face_i = 2
    /\ \E p \in FaceCovered(mesh, 1) \ FaceCovered(mesh, 2) : occ[p] = V1
    /\ \E p \in FaceCovered(mesh, 2) \ FaceCovered(mesh, 1) : occ[p] = V1

(***************************************************************************)
(* C16: for a hole returned by sample_hole, mask pixel (row r, column c)   *)
(* is 1 if and only if the rasterizer's sample point (c / R, r / R) lies   *)
(* within diameter / 2 of the chosen center, and the center's own pixel is *)
(* set.  The center is a pixel of the valid region whose box is uv_box.    *)
(***************************************************************************)
\* the rasterizer's sample coordinate of pixel index k, in units of 1/One
RasterPoint(k) == (k * One) \div R

InDisc(p, c, radius) ==
    (RasterPoint(p[2]) - RasterPoint(c[2])) * (RasterPoint(p[2]) - RasterPoint(c[2]))
      + (RasterPoint(p[1]) - RasterPoint(c[1])) * (RasterPoint(p[1]) - RasterPoint(c[1]))
        <= radius * radius

C16_DiscOnRasterGrid ==
    (sret = "op" /\ op_gt.op_type = "add_hole") =>
        \A radius \in {op_gt.params.diameterMm \div 200} :
            \E c \in ValidPixels(uv_grid[1]) :
                /\ op_gt.uv_box = << Max2(0, RasterPoint(c[2]) - radius),
                                     Min2(One, RasterPoint(c[2]) + radius),
                                     Max2(0, RasterPoint(c[1]) - radius),
                                     Min2(One, RasterPoint(c[1]) + radius) >>
                /\ \A p \in Pixels : op_gt.mask[p] = V1 <=> InDisc(p, c, radius)
                /\ op_gt.mask[c] = V1

(***************************************************************************)
(* app.py create_input_channels(uv_grid, proposal, resolution), and the    *)
(* channel count of the model, UVUNet(in_channels=4, num_params=5).  A     *)
(* uv_box bound is in units of 1/One.  The thickness channel is in half    *)
(* units: its value V1 stands for 0.5.                                     *)
(***************************************************************************)
InChannels == 4

\* rough_box[v_min:v_max, u_min:u_max] = 1.0 with int(bound * resolution)
RoughBox(box) ==
    LET u_min == IntTrunc(box[1] * R, One)
        u_max == IntTrunc(box[2] * R, One)
        v_min == IntTrunc(box[3] * R, One)
        v_max == IntTrunc(box[4] * R, One)
    IN  [p \in Pixels |->
            IF /\ v_min <= p[1] /\ p[1] < v_max
               /\ u_min <= p[2] /\ p[2] < u_max
            THEN V1 ELSE 0]

CreateInputChannels(grid, prop) ==
    << grid,
       RoughBox(prop.uv_box),
       [p \in Pixels |-> IF prop.op_type = "add_hole" THEN V1 ELSE 0],
       [p \in Pixels |-> V1] >>

(***************************************************************************)
(* C17: the channel stack of every Sample generate_sample produces has the *)
(* channel count of the stack create_input_channels builds for the same    *)
(* occupancy grid and operation, and of the model's input: 4 channels,     *)
(* with the occupancy first.                                               *)
(***************************************************************************)
C17_SameChannelStack ==
    (gpc = "returned" /\ gret.kind = "Sample") =>
        \A inf \in { CreateInputChannels(uv_grid[1],
                        [uv_box  |-> gret.envelope_gt.uvBox,
                         op_type |-> gret.envelope_gt.type]) } :
            /\ Len(inf) = InChannels
            /\ Len(gret.uv_grid) = Len(inf)
            /\ gret.uv_grid[1] = inf[1]

(***************************************************************************)
(* app.py: the POST /refine handler.  One step per position in the try     *)
(* block: the model-file test, load_model, the rest of the body (from      *)
(* rasterize_uv_grid to the RefineResponse), and the except clause.  The   *)
(* network's output is any soft mask and any parameter vector.  Request    *)
(* meshes have no faces; a proposal's uv_box is a full box or the empty    *)
(* dict, for which create_input_channels raises KeyError.                  *)
(***************************************************************************)
\* HTTPException(status_code, detail), and an exception of the body
HTTPException(status_code) == [type |-> "HTTPException", status_code |-> status_code]
KeyError == [type |-> "KeyError", status_code |-> 0]

\* the classes `except Exception` catches: HTTPException is a subclass of Exception
ExceptionClasses == {"HTTPException", "KeyError"}

IsRequestMesh(m) ==
    \E x \in 0..R :
        m = [vertices |-> << <<0, 0, 0>>, <<1, 1, 0>> >>,
             uv |-> << <<x, x>>, <<R, R>> >>, faces |-> <<>>, den |-> 2 * R]

IsProposal(q) ==
    \E t \in OpTypes, b \in { <<0, One, 0, One>>, <<>> } :
        q = [uv_box |-> b, op_type |-> t]

\* params_dict: each parameter is held as the slot it is denormalized from
ParamsDict(op_type, params) ==
    IF op_type = "add_hole" THEN [diameterMm |-> params[1]]
    ELSE IF op_type = "extrude_region"
         THEN [heightMm |-> params[2], taperAngleDegrees |-> params[3]]
         ELSE <<>>

RefineInit ==
    /\ hpc = "try"
    /\ model_exists \in BOOLEAN
    /\ model_loaded \in BOOLEAN
    /\ IsRequestMesh(mesh)
    /\ IsProposal(proposal)
    /\ exc = NoExc
    /\ response = NoResponse
    /\ calls = <<>>
    /\ uv_grid = <<>>
    /\ RenderIdle
    /\ SamplerIdle
    /\ AppIdle
    /\ params_gt = <<>>
    /\ gpc = "idle"
    /\ g_op_type = "add_hole"
    /\ gret = Pending
    /\ TrainIdle

\* if not model_path.exists(): raise HTTPException(status_code=503, ...)
RefineCheckModel ==
    /\ hpc = "try"
    /\ IF model_exists
       THEN hpc' = "load" /\ exc' = exc
       ELSE hpc' = "except" /\ exc' = HTTPException(503)
    /\ UNCHANGED <<rvars, svars, avars, params_gt, gpc, g_op_type, gret,
                   model_exists, model_loaded, proposal, response, calls, tvars>>

\* model = load_model(str(model_path))
RefineLoadModel ==
    /\ hpc = "load"
    /\ model_loaded' = TRUE
    /\ calls' = Append(calls, "load_model")
    /\ hpc' = "run"
    /\ UNCHANGED <<rvars, svars, avars, params_gt, gpc, g_op_type, gret,
                   model_exists, proposal, exc, response, tvars>>

\* rasterize_uv_grid, create_input_channels, the model, postprocess_mask, the
\* vertex selection, params_dict, compute_confidence, return RefineResponse
RefineRun ==
    /\ hpc = "run"
    /\ calls' = Append(calls, "rasterize_uv_grid")
    /\ IF proposal.uv_box = <<>>
       THEN /\ exc' = KeyError
            /\ hpc' = "except"
            /\ UNCHANGED <<avars, response>>
       ELSE /\ IsConfMask(mask_pred')
            /\ IsParams(params_pred')
            /\ mask_processed' = PostprocessMask(mask_pred')
            /\ mask_vertex_ids' = SelectVertexIds(mesh, mask_processed')
            /\ confidence' = ComputeConfidence(mask_pred', params_pred')
            /\ response' = [status |-> 200,
                            mask_vertex_ids |-> mask_vertex_ids',
                            params |-> ParamsDict(proposal.op_type, params_pred'),
                            confidence |-> confidence',
                            mask_rasterized |-> mask_processed']
            /\ exc' = exc
            /\ hpc' = "done"
            /\ apc' = apc
    /\ UNCHANGED <<rvars, svars, params_gt, gpc, g_op_type, gret,
                   model_exists, model_loaded, proposal, tvars>>

\* except Exception as e: raise HTTPException(status_code=500, detail=str(e))
RefineExcept ==
    /\ hpc = "except"
    /\ exc.type \in ExceptionClasses
    /\ response' = [status |-> 500, detail |-> exc]
    /\ exc' = NoExc
    /\ hpc' = "done"
    /\ UNCHANGED <<rvars, svars, avars, params_gt, gpc, g_op_type, gret,
                   model_exists, model_loaded, proposal, calls, tvars>>

RefineNext ==
    \/ RefineCheckModel \/ RefineLoadModel \/ RefineRun \/ RefineExcept

SpecRefine == RefineInit /\ [][RefineNext]_vars

(***************************************************************************)
(* C18: when the model file does not exist, the request ends with status   *)
(* 503 reaching the client, and neither load_model nor rasterize_uv_grid   *)
(* has been called.                                                        *)
(***************************************************************************)
C18_MissingModelIs503 ==
    (hpc = "done" /\ ~model_exists) =>
        /\ response.status = 503
        /\ calls = <<>>

(***************************************************************************)
(* train.py: train's loop over the epochs and the final save.  A loss is a *)
(* Python float: a finite value [k |-> "fin", v |-> n], float('inf') or    *)
(* NaN; validate returns any of them.  One step per iteration of           *)
(* `for epoch in range(num_epochs)`, one for the save that follows the     *)
(* loop.                                                                   *)
(***************************************************************************)
Fin(n) == [k |-> "fin", v |-> n]
NaN == [k |-> "nan", v |-> 0]
Losses == { Fin(n) : n \in 0..MaxLoss } \cup {Inf, NaN}

\* a <= b on floats
LtOrEqual(a, b) ==
    /\ a.k # "nan" /\ b.k # "nan"
    /\ \/ b.k = "inf"
       \/ a.k = "fin" /\ b.k = "fin" /\ a.v <= b.v

\* a < b on floats: False when either is NaN, and inf < inf is False
Lt(a, b) ==
    /\ a.k # "nan" /\ b.k # "nan"
    /\ \/ a.k = "fin" /\ b.k = "inf"
       \/ a.k = "fin" /\ b.k = "fin" /\ a.v < b.v

TrainInit ==
    /\ tpc = "loop"
    /\ num_epochs \in 0..MaxEpochs
    /\ epoch = 0
    /\ val_losses = <<>>
    /\ best_val_loss = Inf
    /\ checkpoints = {}
    /\ final_saves = 0
    /\ mesh = NoMesh
    /\ uv_grid = <<>>
    /\ RenderIdle
    /\ SamplerIdle
    /\ AppIdle
    /\ params_gt = <<>>
    /\ gpc = "idle"
    /\ g_op_type = "add_hole"
    /\ gret = Pending
    /\ HandlerIdle

\* val_loss = validate(...); if val_loss < best_val_loss: best_val_loss =
\* val_loss; torch.save({...}, checkpoint_epoch_{epoch+1}.pt)
TrainEpoch ==
    /\ tpc = "loop"
    /\ epoch < num_epochs
    /\ \E val_loss \in Losses :
          /\ val_losses' = Append(val_losses, val_loss)
          /\ IF Lt(val_loss, best_val_loss)
             THEN /\ best_val_loss' = val_loss
                  /\ checkpoints' = checkpoints \cup {epoch + 1}
             ELSE UNCHANGED <<best_val_loss, checkpoints>>
    /\ epoch' = epoch + 1
    /\ UNCHANGED <<rvars, svars, avars, params_gt, gpc, g_op_type, gret, hvars,
                   tpc, num_epochs, final_saves>>

\* torch.save(model.state_dict(), final_path)
TrainSaveFinal ==
    /\ tpc = "loop"
    /\ epoch = num_epochs
    /\ final_saves' = final_saves + 1
    /\ tpc' = "saved"
    /\ UNCHANGED <<rvars, svars, avars, params_gt, gpc, g_op_type, gret, hvars,
                   num_epochs, epoch, val_losses, best_val_loss, checkpoints>>

TrainNext == TrainEpoch \/ TrainSaveFinal

SpecTrain == TrainInit /\ [][TrainNext]_vars

(***************************************************************************)
(* C19 as stated: for every sequence of validation losses, a checkpoint is *)
(* saved at epoch e if and only if the loss of epoch e is strictly smaller *)
(* than the loss of every earlier epoch (so always at epoch 1), and after  *)
(* each epoch best_val_loss is the minimum loss seen so far.               *)
(***************************************************************************)
\* a is strictly greater than b
Exceeds(a, b) ==
    \/ a.k = "inf" /\ b.k = "fin"
    \/ a.k = "fin" /\ b.k = "fin" /\ a.v > b.v

C19_CheckpointIffBelowEveryEarlier ==
    /\ \A e \in 1..epoch :
          e \in checkpoints <=>
              \A j \in 1..(e - 1) : Exceeds(val_losses[j], val_losses[e])
    /\ epoch >= 1 =>
          /\ \E j \in 1..epoch : best_val_loss = val_losses[j]
          /\ \A j \in 1..epoch : ~Exceeds(best_val_loss, val_losses[j])

(***************************************************************************)
(* C19, amended: a checkpoint is saved at epoch e if and only if the loss  *)
(* of epoch e is finite and strictly smaller than every finite loss of an  *)
(* earlier epoch; an inf or NaN loss saves no checkpoint.  best_val_loss   *)
(* starts at inf, never increases, and after each epoch is the minimum of  *)
(* the finite losses seen so far (inf while there is none).  The final     *)
(* model is saved exactly once, after the last epoch, whether or not any   *)
(* checkpoint was saved.                                                   *)
(***************************************************************************)
FiniteSoFar(n) == { j \in 1..n : val_losses[j].k = "fin" }

C19_CheckpointIffBelowEveryFinite ==
    /\ [](\A e \in 1..epoch :
            e \in checkpoints <=>
                /\ val_losses[e].k = "fin"
                /\ \A j \in FiniteSoFar(e - 1) : val_losses[e].v < val_losses[j].v)
    /\ [](IF FiniteSoFar(epoch) = {}
          THEN best_val_loss = Inf
          ELSE /\ \E j \in FiniteSoFar(epoch) : best_val_loss = val_losses[j]
               /\ \A j \in FiniteSoFar(epoch) : best_val_loss.v <= val_losses[j].v)
    /\ [][~Exceeds(best_val_loss', best_val_loss)]_vars
    /\ [](final_saves = IF tpc = "saved" THEN 1 ELSE 0)
    /\ [](tpc = "saved" => epoch = num_epochs /\ Len(val_losses) = num_epochs)

\* training has ended after three epochs: the second improved on the first and
\* saved a checkpoint, the third tied with the best and saved none, and the
\* final model was saved once
C19_Witness ==
    /\ tpc = "saved"
    /\ epoch = 3
    /\ checkpoints = {1, 2}
    /\ val_losses[3] = val_losses[2]
    /\ val_losses[2].k = "fin"
    /\ final_saves = 1

\* training has ended with no checkpoint at all and the final model saved once
C19_WitnessNoCheckpoint ==
    /\ tpc = "saved"
    /\ epoch >= 1
    /\ checkpoints = {}
    /\ final_saves = 1

=============================================================================
